---- MODULE Spec2Model ----
(***************************************************************************)
(* Model of the finance data worker (src/worker/worker.py) and of the      *)
(* screening endpoint of the backend (src/backend/app.py).                 *)
(*                                                                         *)
(* Numbers.  Ratios and fractions (P/E, PEG, price-to-book, ROE, revenue   *)
(* growth) are kept as integers in hundredths: pe = 18 is 1800, peg = 1.2  *)
(* is 120, revenue_growth = 0.12 is 12.  Times are integer seconds.        *)
(*                                                                         *)
(* Provider values.  A value of the provider's info dictionary is either   *)
(* None, written << >>, or a number v, written <<v>>; a key may also be     *)
(* absent from the dictionary.                                             *)
(***************************************************************************)
EXTENDS Integers, Sequences, FiniteSets, TLC

(***************************************************************************)
(* Bounds of the model.                                                    *)
(***************************************************************************)
NumDefault == 1
MaxCycles == 2
MaxScreens == 1
MaxInitNews == 1

(***************************************************************************)
(* Program constants.                                                      *)
(***************************************************************************)
DEFAULT_TICKERS ==
    << "AAPL", "MSFT", "GOOGL", "AMZN", "TSLA", "META", "NVDA", "NFLX",
       "ADBE", "CRM", "ORCL", "IBM", "INTC", "AMD", "UBER", "LYFT",
       "SPY", "QQQ", "IWM", "GLD", "SLV", "TLT", "VTI", "VXUS" >>

WORKER_INTERVAL == 300
POLL_SLEEP == 60
BACKOFF_SLEEP == 60
TICKER_DELAY == 1
RETENTION_DAYS == 30
SecondsPerDay == 86400

None == << >>
Some(v) == << v >>

(***************************************************************************)
(* dict.get(key, default) and the "x or 0" idiom of Python.                *)
(***************************************************************************)
Get(info, key, default) ==
    IF key \in DOMAIN info THEN info[key] ELSE Some(default)

OrZero(x) == IF x = None THEN 0 ELSE x[1]

Min(a, b) == IF a < b THEN a ELSE b
Max(a, b) == IF a > b THEN a ELSE b

(***************************************************************************)
(* calculate_screening_scores: the full formula of the backend.            *)
(***************************************************************************)
FullGarpInclusive(pe, peg, rg) ==
    LET tier  == IF 0 < pe /\ pe <= 2000 /\ 0 < peg /\ peg <= 150 THEN 3
                 ELSE IF 0 < pe /\ pe <= 2500 /\ 0 < peg /\ peg <= 200 THEN 2
                 ELSE IF pe > 0 /\ peg > 0 THEN 1
                 ELSE 0
        bonus == IF rg >= 10 THEN 2 ELSE IF rg >= 5 THEN 1 ELSE 0
    IN  tier + bonus

FullGarp(pe, peg, rg) ==
    LET tier  == IF 0 < pe /\ pe < 2000 /\ 0 < peg /\ peg < 150 THEN 3
                 ELSE IF 0 < pe /\ pe < 2500 /\ 0 < peg /\ peg < 200 THEN 2
                 ELSE IF pe > 0 /\ peg > 0 THEN 1
                 ELSE 0
        bonus == IF rg > 10 THEN 2 ELSE IF rg > 5 THEN 1 ELSE 0
    IN  tier + bonus

FullGrowth(rg, roe) ==
    LET tier  == IF rg > 15 THEN 3
                 ELSE IF rg > 10 THEN 2
                 ELSE IF rg > 5 THEN 1
                 ELSE 0
        bonus == IF roe > 15 THEN 2 ELSE IF roe > 10 THEN 1 ELSE 0
    IN  tier + bonus

FullValue(pe, ptb) ==
    LET tier  == IF 0 < pe /\ pe < 1500 THEN 3
                 ELSE IF 0 < pe /\ pe < 2000 THEN 2
                 ELSE IF 0 < pe /\ pe < 2500 THEN 1
                 ELSE 0
        bonus == IF 0 < ptb /\ ptb < 150 THEN 2
                 ELSE IF 0 < ptb /\ ptb < 250 THEN 1
                 ELSE 0
    IN  tier + bonus

\* growth_score starts from garp_score instead of 0 and nothing is clamped.
calculate_screening_scores_carry(info) ==
    LET pe_ratio       == OrZero(Get(info, "trailingPE", 0))
        peg_ratio      == OrZero(Get(info, "pegRatio", 0))
        price_to_book  == OrZero(Get(info, "priceToBook", 0))
        roe            == OrZero(Get(info, "returnOnEquity", 0))
        revenue_growth == OrZero(Get(info, "revenueGrowth", 0))
        garp_score     == FullGarp(pe_ratio, peg_ratio, revenue_growth)
    IN  [ garp_score     |-> garp_score,
          growth_score   |-> garp_score + FullGrowth(revenue_growth, roe),
          value_score    |-> FullValue(pe_ratio, price_to_book),
          pe_ratio       |-> pe_ratio,
          peg_ratio      |-> peg_ratio,
          price_to_book  |-> price_to_book,
          roe            |-> roe,
          revenue_growth |-> revenue_growth ]

calculate_screening_scores(info) ==
    LET pe_ratio       == OrZero(Get(info, "trailingPE", 0))
        peg_ratio      == OrZero(Get(info, "pegRatio", 0))
        price_to_book  == OrZero(Get(info, "priceToBook", 0))
        roe            == OrZero(Get(info, "returnOnEquity", 0))
        revenue_growth == OrZero(Get(info, "revenueGrowth", 0))
    IN  [ garp_score     |-> Min(FullGarp(pe_ratio, peg_ratio, revenue_growth), 5),
          growth_score   |-> Min(FullGrowth(revenue_growth, roe), 5),
          value_score    |-> Min(FullValue(pe_ratio, price_to_book), 5),
          pe_ratio       |-> pe_ratio,
          peg_ratio      |-> peg_ratio,
          price_to_book  |-> price_to_book,
          roe            |-> roe,
          revenue_growth |-> revenue_growth ]

(***************************************************************************)
(* get_recommendation.                                                     *)
(***************************************************************************)
get_recommendation_strict(scores) ==
    LET total_score == scores.garp_score + scores.growth_score + scores.value_score
    IN  IF total_score > 12 THEN [rating |-> "Strong Buy", confidence |-> "High"]
        ELSE IF total_score > 9 THEN [rating |-> "Buy", confidence |-> "Medium"]
        ELSE IF total_score > 6 THEN [rating |-> "Hold", confidence |-> "Low"]
        ELSE [rating |-> "Sell", confidence |-> "Low"]
get_recommendation(scores) ==
    LET total_score == scores.garp_score + scores.growth_score + scores.value_score
    IN  IF total_score >= 12 THEN [rating |-> "Strong Buy", confidence |-> "High"]
        ELSE IF total_score >= 9 THEN [rating |-> "Buy", confidence |-> "Medium"]
        ELSE IF total_score >= 6 THEN [rating |-> "Hold", confidence |-> "Low"]
        ELSE [rating |-> "Sell", confidence |-> "Low"]

(***************************************************************************)
(* The simplified scores of update_stock_data.  info.get('revenueGrowth',  *)
(* 0) > 0.1 raises TypeError when the key is present with value None.      *)
(***************************************************************************)
WorkerScoresRaise(info) == Get(info, "revenueGrowth", 0) = None

WorkerScoresFull(info) ==
    LET scores == calculate_screening_scores(info)
    IN  [ garp_score   |-> scores.garp_score,
          growth_score |-> scores.growth_score,
          value_score  |-> scores.value_score ]
WorkerScores(info) ==
    LET pe_ratio == OrZero(Get(info, "trailingPE", 0))
        rg       == Get(info, "revenueGrowth", 0)[1]
    IN  [ garp_score   |-> Min(5, Max(0, IF 0 < pe_ratio /\ pe_ratio < 2000 THEN 3 ELSE 1)),
          growth_score |-> Min(5, Max(0, IF rg > 10 THEN 3 ELSE 1)),
          value_score  |-> Min(5, Max(0, IF 0 < pe_ratio /\ pe_ratio < 1500 THEN 3 ELSE 1)) ]

(***************************************************************************)
(* The worker's world: tickers, provider responses, news pages.            *)
(***************************************************************************)
DefaultTickers == { DEFAULT_TICKERS[i] : i \in 1..NumDefault }
ExtraTickers == { "ZZZ" }
AllTickers == DefaultTickers \cup ExtraTickers

StartTime == 40 * SecondsPerDay
FirstSweepTime == StartTime + NumDefault * TICKER_DELAY

\* Responses of the market data provider: the info dictionary (the second
\* one has revenueGrowth present and None) ...
InfoChoices ==
    { [ trailingPE |-> Some(1800), pegRatio |-> Some(120), revenueGrowth |-> Some(12),
        marketCap |-> Some(7), longName |-> Some("Corp") ],
      [ trailingPE |-> Some(1200), revenueGrowth |-> None, marketCap |-> Some(7) ] }
\* ... and the last close of the price history (None: the history is empty).
HistChoices == { None, Some(10000) }

\* Headlines of a news page and their polarity (hundredths, in -100..100).
H_LONG == "Shares jump on earnings"
H_OTHER == "Regulator opens probe"
H_TEN == "Ten chars!"
H_TINY == "Tiny"
Polarity(headline) ==
    IF headline = H_LONG THEN 50 ELSE IF headline = H_OTHER THEN -30 ELSE 0

\* The h3 elements of the news page, in page order.
PageChoices ==
    { << >>, << H_LONG >>, << H_LONG, H_LONG >>, << H_TINY, H_TEN, H_OTHER >> }

(***************************************************************************)
(* State.                                                                  *)
(***************************************************************************)
VARIABLES
    now,        \* wall clock, seconds
    stocks,     \* table stocks: set of rows
    news,       \* table news: set of rows
    newsSeq,    \* last value of the sequence behind news.id
    pc,         \* position of main()
    jpc,        \* position of worker_job()
    tickers,    \* worker_job: the list "tickers"
    idx,        \* worker_job: index of the current ticker in "tickers"
    next_run,   \* schedule: next run of the recurring job (0: not scheduled)
    cycles,     \* number of worker_job invocations so far
    screens,    \* number of /screen requests served so far
    log,        \* history: the operations of the current cycle, in order
    last,       \* history: the last operation of the cycle, how it ended, what
                \* it did with its connection, and its argument: the collected
                \* headlines of a news update, the rows the ticker had before
                \* a stock update
    at,         \* history: the times at which the current cycle started,
                \* schedule last planned the job, main() last polled
    s_info,     \* scoring: the fundamentals under evaluation; news on its
                \* own: the response of the news page
    s_out,      \* scoring: results computed from s_info
    writers     \* two writers of news at once: each writer's position

vars == << now, stocks, news, newsSeq, pc, jpc, tickers, idx, next_run, cycles,
           screens, log, last, at, s_info, s_out, writers >>

dbvars == << stocks, news, newsSeq >>
jobvars == << jpc, tickers, idx >>
mainvars == << pc, next_run, cycles >>
histvars == << log, last, at >>
scorevars == << s_info, s_out >>

(***************************************************************************)
(* Sequences and sets.                                                     *)
(***************************************************************************)
Range(seq) == { seq[i] : i \in 1..Len(seq) }

\* All orders in which list(set(...)) may enumerate the set S.
Orderings(S) ==
    { seq \in [1..Cardinality(S) -> S] : Range(seq) = S }

(***************************************************************************)
(* The store.  A stocks row is a record                                    *)
(*   [ticker, company_name, current_price, pe_ratio, market_cap,           *)
(*    garp_score, growth_score, value_score, updated_at]                   *)
(* (market_cap is None for SQL NULL), a news row a record                 *)
(*   [id, ticker, headline, sentiment_score, published_at].                *)
(***************************************************************************)
StockColumns ==
    { "ticker", "company_name", "current_price", "pe_ratio", "market_cap",
      "garp_score", "growth_score", "value_score", "updated_at" }

PlainInsert(tbl, row, cols) == tbl \cup { row }
\* INSERT ... ON CONFLICT (ticker) DO UPDATE SET <cols> = EXCLUDED.<cols>
Upsert(tbl, row, cols) ==
    IF \E r \in tbl : r.ticker = row.ticker
    THEN { IF r.ticker = row.ticker
           THEN [ c \in StockColumns |-> IF c \in cols THEN row[c] ELSE r[c] ]
           ELSE r : r \in tbl }
    ELSE tbl \cup { row }

\* SELECT DISTINCT ticker FROM stocks
DistinctTickers(tbl) == { r.ticker : r \in tbl }

SelectNewsSwapped(tbl, ticker, headline) ==
    { r \in tbl : r.ticker = headline /\ r.headline = ticker }
\* SELECT id FROM news WHERE ticker = %s AND headline = %s
SelectNews(tbl, ticker, headline) ==
    { r \in tbl : r.ticker = ticker /\ r.headline = headline }

DeleteOlderOrEqual(tbl, cutoff) == { r \in tbl : ~ (r.published_at <= cutoff) }
\* DELETE FROM news WHERE published_at < %s
DeleteOlderThan(tbl, cutoff) == { r \in tbl : ~ (r.published_at < cutoff) }

(***************************************************************************)
(* The market data provider: it raises, or returns info and history.       *)
(***************************************************************************)
ProviderResponses ==
    { [ raises |-> TRUE, info |-> [ trailingPE |-> None ], hist |-> None ] }
    \cup { [ raises |-> FALSE, info |-> i, hist |-> h ] : i \in InfoChoices, h \in HistChoices }

\* get_db_connection returns a connection or None; a statement on an open
\* connection succeeds or raises.
StoreChoices == { "ok", "no_connection", "db_error" }

\* What an operation has done with the connection it opened when it
\* returns: "none" (it opened none), "closed" (it called conn.close()),
\* "not_closed" (it returned without calling conn.close(): the connection
\* and its transaction last until the interpreter reclaims the object).
\* update_stock_data, update_news_sentiment and cleanup_old_data call
\* conn.close() after the commit only, not in their except clauses.
ConnAfterOperation(outcome) ==
    IF outcome = "ok" THEN { "closed" }
    ELSE IF outcome = "db_error" THEN { "not_closed" }
    ELSE { "none" }

\* worker_job closes the connection of the ticker query on both paths
\* (lines 225 and 228-229).
ConnAfterTickerQuery(store) ==
    IF store = "no_connection" THEN { "none" } ELSE { "closed" }

(***************************************************************************)
(* update_stock_data(ticker).                                              *)
(***************************************************************************)
WorkerUpdateColumns == StockColumns \ { "ticker" }

WorkerStockRow(ticker, resp, t) ==
    LET sc == WorkerScores(resp.info)
    IN  [ ticker        |-> ticker,
          company_name  |-> Get(resp.info, "longName", ticker)[1],
          current_price |-> resp.hist[1],
          pe_ratio      |-> OrZero(Get(resp.info, "trailingPE", 0)),
          market_cap    |-> Some(OrZero(Get(resp.info, "marketCap", 0))),
          garp_score    |-> sc.garp_score,
          growth_score  |-> sc.growth_score,
          value_score   |-> sc.value_score,
          updated_at    |-> t ]

\* How update_stock_data ends: "ok" is the path that commits and returns True,
\* every other outcome returns False.
StockOutcome(resp, store) ==
    IF resp.raises THEN "provider_error"
    ELSE IF resp.hist = None THEN "no_history"
    ELSE IF WorkerScoresRaise(resp.info) THEN "type_error"
    ELSE store

update_stock_data_autocommit(tbl, ticker, resp, store, t) ==
    IF StockOutcome(resp, store) \in { "ok", "db_error" }
    THEN Upsert(tbl, WorkerStockRow(ticker, resp, t), WorkerUpdateColumns)
    ELSE tbl
update_stock_data(tbl, ticker, resp, store, t) ==
    IF StockOutcome(resp, store) = "ok"
    THEN Upsert(tbl, WorkerStockRow(ticker, resp, t), WorkerUpdateColumns)
    ELSE tbl

(***************************************************************************)
(* fetch_news_sentiment(ticker, max_articles=5).  The page request returns *)
(* a status and the h3 elements, or raises.                                *)
(***************************************************************************)
MAX_ARTICLES == 5

NewsResponses ==
    { [ raises |-> TRUE, status |-> 0, page |-> << >> ],
      [ raises |-> FALSE, status |-> 503, page |-> << >> ] }
    \cup { [ raises |-> FALSE, status |-> 200, page |-> p ] : p \in PageChoices }

KeepHeadline(headline) == Len(headline) > 10

fetch_news_sentiment(resp, t) ==
    IF resp.raises \/ resp.status # 200 THEN << >>
    ELSE LET news_items == SubSeq(resp.page, 1, Min(MAX_ARTICLES, Len(resp.page)))
             kept == SelectSeq(news_items, KeepHeadline)
         IN  [ i \in 1..Len(kept) |->
                 [ headline        |-> kept[i],
                   sentiment_score |-> Polarity(kept[i]),
                   published_at    |-> t ] ]

(***************************************************************************)
(* update_news_sentiment(ticker): the loop over the collected items, run   *)
(* in one transaction.  A statement sees the rows of the table and the     *)
(* rows the transaction has inserted so far.  failAt = k > 0: the SELECT   *)
(* of item k raises (k = Len(items) + 1: the commit raises).               *)
(***************************************************************************)
RECURSIVE NewsLoop(_, _, _, _, _, _)
NewsLoop(tbl, seq, ticker, items, i, failAt) ==
    IF i = failAt THEN [ tbl |-> tbl, seq |-> seq, raised |-> TRUE ]
    ELSE IF i > Len(items) THEN [ tbl |-> tbl, seq |-> seq, raised |-> FALSE ]
    ELSE IF SelectNews(tbl, ticker, items[i].headline) # {}
         THEN NewsLoop(tbl, seq, ticker, items, i + 1, failAt)
         ELSE NewsLoop(tbl \cup { [ id              |-> seq + 1,
                                    ticker          |-> ticker,
                                    headline        |-> items[i].headline,
                                    sentiment_score |-> items[i].sentiment_score,
                                    published_at    |-> items[i].published_at ] },
                       seq + 1, ticker, items, i + 1, failAt)

NewsOutcome(items, store, failAt) ==
    IF items = << >> THEN "no_news"
    ELSE IF store = "no_connection" THEN "no_connection"
    ELSE IF store = "db_error" /\ failAt > 0 THEN "db_error"
    ELSE "ok"

update_news_sentiment_autocommit(tbl, seq, ticker, items, store, failAt) ==
    LET outcome == NewsOutcome(items, store, failAt)
        run     == NewsLoop(tbl, seq, ticker, items, 1,
                            IF outcome = "db_error" THEN failAt ELSE 0)
    IN  IF outcome \in { "ok", "db_error" } THEN [ tbl |-> run.tbl, seq |-> run.seq ]
        ELSE [ tbl |-> tbl, seq |-> seq ]
\* The table and the sequence after the call.  Without the commit the
\* inserted rows are lost.  The ids only tell rows apart: the model numbers
\* the committed rows and does not keep the gaps a rollback leaves.
update_news_sentiment(tbl, seq, ticker, items, store, failAt) ==
    LET outcome == NewsOutcome(items, store, failAt)
        run     == NewsLoop(tbl, seq, ticker, items, 1,
                            IF outcome = "db_error" THEN failAt ELSE 0)
    IN  IF outcome = "ok" THEN [ tbl |-> run.tbl, seq |-> run.seq ]
        ELSE [ tbl |-> tbl, seq |-> seq ]

(***************************************************************************)
(* cleanup_old_data().                                                     *)
(***************************************************************************)
Cutoff(t) == t - RETENTION_DAYS * SecondsPerDay

cleanup_old_data(tbl, store, t) ==
    IF store = "ok" THEN DeleteOlderThan(tbl, Cutoff(t)) ELSE tbl

(***************************************************************************)
(* worker_job: the ticker universe.                                        *)
(***************************************************************************)
DefaultList == SubSeq(DEFAULT_TICKERS, 1, NumDefault)

TickerUniverseNoSet(store, tbl) ==
    IF store = "ok"
    THEN { DefaultList \o o : o \in Orderings(DistinctTickers(tbl)) }
    ELSE { DefaultList }
\* The lists "tickers" may be after lines 215-229: DEFAULT_TICKERS.copy(), or
\* list(set(tickers + db_tickers)) in any order when the query succeeded.
TickerUniverse(store, tbl) ==
    IF store = "ok"
    THEN Orderings(Range(DefaultList) \cup DistinctTickers(tbl))
    ELSE { DefaultList }

(***************************************************************************)
(* screen_stock(ticker) of the backend: the second writer of stocks.       *)
(***************************************************************************)
ScreenUpdateColumns == StockColumns \ { "ticker", "company_name" }

ScreenStockRow(ticker, resp, t) ==
    LET scores == calculate_screening_scores(resp.info)
    IN  [ ticker        |-> ticker,
          company_name  |-> Get(resp.info, "longName", ticker)[1],
          current_price |-> resp.hist[1],
          pe_ratio      |-> scores.pe_ratio,
          market_cap    |-> Get(resp.info, "marketCap", 0),
          garp_score    |-> scores.garp_score,
          growth_score  |-> scores.growth_score,
          value_score   |-> scores.value_score,
          updated_at    |-> t ]

screen_stock(tbl, ticker, resp, store, t) ==
    IF ~ resp.raises /\ resp.hist # None /\ store = "ok"
    THEN Upsert(tbl, ScreenStockRow(ticker, resp, t), ScreenUpdateColumns)
    ELSE tbl

(***************************************************************************)
(* Initial state: the process starts on the tables left by earlier runs    *)
(* and earlier /screen requests.                                           *)
(***************************************************************************)
InitStockTables ==
    { {},
      { ScreenStockRow("ZZZ",
                       [ raises |-> FALSE,
                         info |-> [ trailingPE |-> Some(1800), pegRatio |-> Some(120),
                                    revenueGrowth |-> Some(12), marketCap |-> Some(7),
                                    longName |-> Some("Corp") ],
                         hist |-> Some(10000) ],
                       StartTime - SecondsPerDay) } }

InitTimes ==
    { FirstSweepTime - 31 * SecondsPerDay,
      FirstSweepTime - 30 * SecondsPerDay - 1,
      FirstSweepTime - 30 * SecondsPerDay,
      FirstSweepTime - 29 * SecondsPerDay }

InitNewsCandidates ==
    { [ ticker |-> DEFAULT_TICKERS[1], headline |-> H_LONG,
        sentiment_score |-> Polarity(H_LONG), published_at |-> t ] : t \in InitTimes }
    \cup { [ ticker |-> t, headline |-> h,
             sentiment_score |-> Polarity(h),
             published_at |-> FirstSweepTime - 30 * SecondsPerDay ] :
           t \in ExtraTickers, h \in { H_LONG, H_OTHER } }

WithIds(S) ==
    LET f == CHOOSE g \in [S -> 1..Cardinality(S)] :
                 \A a, b \in S : a # b => g[a] # g[b]
    IN  { [ id |-> f[r], ticker |-> r.ticker, headline |-> r.headline,
            sentiment_score |-> r.sentiment_score,
            published_at |-> r.published_at ] : r \in S }

InitNewsTables ==
    { WithIds(S) : S \in { T \in SUBSET InitNewsCandidates :
                             /\ Cardinality(T) <= MaxInitNews
                             /\ \A a, b \in T :
                                  (a.ticker = b.ticker /\ a.headline = b.headline)
                                      => a = b } }

NoInfo == [ trailingPE |-> None ]
NoScores == [ scores |-> << >>, worker |-> << >>, rec |-> << >> ]
NoOp == [ op |-> "none", ticker |-> "", outcome |-> "", arg |-> {}, conn |-> "none" ]
NoTimes == [ started |-> 0, planned |-> 0, polled |-> 0 ]
NoWriters == << >>

Init ==
    /\ now = StartTime
    /\ stocks \in InitStockTables
    /\ news \in InitNewsTables
    /\ newsSeq = Cardinality(news)
    /\ pc = "start"
    /\ jpc = "idle"
    /\ tickers = << >>
    /\ idx = 0
    /\ next_run = 0
    /\ cycles = 0
    /\ screens = 0
    /\ log = << >>
    /\ last = NoOp
    /\ at = NoTimes
    /\ s_info = NoInfo
    /\ s_out = NoScores
    /\ writers = NoWriters

(***************************************************************************)
(* worker_job().                                                           *)
(***************************************************************************)
JobRunning == pc \in { "initial_job", "scheduled_job" }

\* Lines 214-231: the ticker universe.
FetchTickers ==
    /\ JobRunning /\ jpc = "universe"
    /\ \E store \in StoreChoices :
         /\ tickers' \in TickerUniverse(store, stocks)
         /\ \E c \in ConnAfterTickerQuery(store) :
              last' = [ op |-> "tickers", ticker |-> "", outcome |-> store,
                        arg |-> {}, conn |-> c ]
    /\ idx' = 1
    /\ jpc' = "stock"
    /\ UNCHANGED << now, dbvars, mainvars, screens, log, at, scorevars, writers >>

\* Lines 239-242: the results of the two updates are ignored, the news update
\* follows the stock update whatever its outcome.
AfterStockUpdateNoBoundary(outcome) == IF outcome = "ok" THEN "news" ELSE "cleanup"
AfterStockUpdate(outcome) == "news"
AfterNewsUpdateNoBoundary(outcome) ==
    IF outcome \in { "ok", "no_news" } THEN "delay" ELSE "cleanup"
AfterNewsUpdate(outcome) == "delay"

\* Line 239: update_stock_data(ticker).
UpdateStock(Stores) ==
    /\ JobRunning /\ jpc = "stock"
    /\ \E resp \in ProviderResponses, store \in Stores :
         /\ stocks' = update_stock_data(stocks, tickers[idx], resp, store, now)
         /\ \E c \in ConnAfterOperation(StockOutcome(resp, store)) :
              last' = [ op |-> "stock", ticker |-> tickers[idx],
                        outcome |-> StockOutcome(resp, store),
                        arg |-> { r \in stocks : r.ticker = tickers[idx] },
                        conn |-> c ]
         /\ log' = Append(log, << "stock", tickers[idx] >>)
         /\ jpc' = AfterStockUpdate(StockOutcome(resp, store))
    /\ UNCHANGED << now, news, newsSeq, tickers, idx, mainvars, screens, at, scorevars, writers >>

\* Line 242: update_news_sentiment(ticker).
UpdateNews(Stores) ==
    /\ JobRunning /\ jpc = "news"
    /\ \E resp \in NewsResponses, store \in Stores :
         LET items == fetch_news_sentiment(resp, now)
         IN  \E failAt \in IF store = "db_error" THEN 1..(Len(items) + 1) ELSE { 0 } :
               LET r == update_news_sentiment(news, newsSeq, tickers[idx], items,
                                              store, failAt)
               IN  /\ news' = r.tbl
                   /\ newsSeq' = r.seq
                   /\ \E c \in ConnAfterOperation(NewsOutcome(items, store, failAt)) :
                        last' = [ op |-> "news", ticker |-> tickers[idx],
                                  outcome |-> NewsOutcome(items, store, failAt),
                                  arg |-> [ i \in 1..Len(items) |-> items[i].headline ],
                                  conn |-> c ]
                   /\ log' = Append(log, << "news", tickers[idx] >>)
                   /\ jpc' = AfterNewsUpdate(NewsOutcome(items, store, failAt))
    /\ UNCHANGED << now, stocks, tickers, idx, mainvars, screens, at, scorevars, writers >>

\* Lines 245 and 234: time.sleep(1), then the next ticker or the end of the loop.
NextTicker ==
    /\ JobRunning /\ jpc = "delay"
    /\ now' = now + TICKER_DELAY
    /\ idx' = idx + 1
    /\ jpc' = IF idx + 1 <= Len(tickers) THEN "stock" ELSE "cleanup"
    /\ UNCHANGED << dbvars, tickers, mainvars, screens, histvars, scorevars, writers >>

\* Line 252: cleanup_old_data().
Cleanup ==
    /\ JobRunning /\ jpc = "cleanup"
    /\ \E store \in StoreChoices :
         /\ news' = cleanup_old_data(news, store, now)
         /\ \E c \in ConnAfterOperation(store) :
              last' = [ op |-> "sweep", ticker |-> "", outcome |-> store,
                        arg |-> {}, conn |-> c ]
         /\ log' = Append(log, << "sweep", "" >>)
    /\ jpc' = "end"
    /\ UNCHANGED << now, stocks, newsSeq, tickers, idx, mainvars, screens, at, scorevars, writers >>

(***************************************************************************)
(* An exception raised by a statement of worker_job that is under no       *)
(* failure boundary of worker_job (lines 212-216) leaves worker_job.       *)
(* main() calls the initial job outside its try (line 262), the scheduled  *)
(* jobs inside it (line 270, caught at line 275).                          *)
(***************************************************************************)
OnJobException(position) ==
    IF position = "initial_job" THEN "crashed" ELSE "backoff"

JobRaises ==
    /\ JobRunning /\ jpc = "universe"
    /\ pc' = OnJobException(pc)
    /\ jpc' = "idle"
    /\ last' = [ op |-> "raise", ticker |-> "", outcome |-> pc, arg |-> {},
                 conn |-> "none" ]
    /\ UNCHANGED << now, dbvars, tickers, idx, next_run, cycles, screens,
                    log, at, scorevars, writers >>

(***************************************************************************)
(* main().                                                                 *)
(***************************************************************************)
BeginJob ==
    /\ jpc' = "universe"
    /\ tickers' = << >>
    /\ idx' = 0
    /\ cycles' = cycles + 1
    /\ log' = << >>
    /\ last' = NoOp

\* Line 262: the initial job.
RunInitialJob ==
    /\ pc = "start"
    /\ pc' = "initial_job"
    /\ BeginJob
    /\ at' = [ at EXCEPT !.started = now ]
    /\ UNCHANGED << now, dbvars, next_run, screens, scorevars, writers >>

\* Lines 254 and 265: the initial job returns and the recurring job is
\* scheduled, first due WORKER_INTERVAL seconds from now.
ScheduleJob ==
    /\ pc = "initial_job" /\ jpc = "end"
    /\ next_run' = now + WORKER_INTERVAL
    /\ pc' = "poll"
    /\ jpc' = "idle"
    /\ at' = [ at EXCEPT !.planned = now ]
    /\ UNCHANGED << now, dbvars, tickers, idx, cycles, screens, log, last, scorevars, writers >>

JobDueAlways == next_run # 0
\* Line 270: schedule.run_pending() runs the job when it is due.
JobDue == next_run # 0 /\ now >= next_run

PollDue ==
    /\ pc = "poll" /\ JobDue
    /\ cycles < MaxCycles
    /\ pc' = "scheduled_job"
    /\ BeginJob
    /\ at' = [ at EXCEPT !.started = now, !.polled = now ]
    /\ UNCHANGED << now, dbvars, next_run, screens, scorevars, writers >>

PollIdle ==
    /\ pc = "poll" /\ ~ JobDue
    /\ pc' = "sleep"
    /\ at' = [ at EXCEPT !.polled = now ]
    /\ UNCHANGED << now, dbvars, jobvars, next_run, cycles, screens, log, last, scorevars, writers >>

\* Line 254 inside run_pending: the job returns, schedule plans its next run.
JobReturns ==
    /\ pc = "scheduled_job" /\ jpc = "end"
    /\ next_run' = now + WORKER_INTERVAL
    /\ pc' = "sleep"
    /\ jpc' = "idle"
    /\ at' = [ at EXCEPT !.planned = now ]
    /\ UNCHANGED << now, dbvars, tickers, idx, cycles, screens, log, last, scorevars, writers >>

\* Line 271: time.sleep(60).
Sleep ==
    /\ pc = "sleep"
    /\ now' = now + POLL_SLEEP
    /\ pc' = "poll"
    /\ UNCHANGED << dbvars, jobvars, next_run, cycles, screens, histvars, scorevars, writers >>

\* Lines 275-277: the handler logs and sleeps, the loop goes on.
Backoff ==
    /\ pc = "backoff"
    /\ now' = now + BACKOFF_SLEEP
    /\ pc' = "poll"
    /\ UNCHANGED << dbvars, jobvars, next_run, cycles, screens, histvars, scorevars, writers >>

\* Lines 272-274: the user stops the worker.
Live == pc \in { "start", "initial_job", "poll", "scheduled_job", "sleep", "backoff" }

KeyboardInterrupt ==
    /\ Live
    /\ pc' = "stopped"
    /\ jpc' = "idle"
    /\ tickers' = << >>
    /\ idx' = 0
    /\ next_run' = 0
    /\ log' = << >>
    /\ last' = NoOp
    /\ at' = NoTimes
    /\ UNCHANGED << now, dbvars, cycles, screens, scorevars, writers >>

(***************************************************************************)
(* A /screen/<ticker> request served by the backend.                       *)
(***************************************************************************)
ScreenStock ==
    /\ Live
    /\ screens < MaxScreens
    /\ screens' = screens + 1
    /\ \E ticker \in AllTickers, resp \in ProviderResponses, store \in StoreChoices :
         stocks' = screen_stock(stocks, ticker, resp, store, now)
    /\ UNCHANGED << now, news, newsSeq, jobvars, mainvars, histvars, scorevars, writers >>

\* The steps of main() and worker_job() other than the two per-ticker updates.
Control ==
    \/ RunInitialJob
    \/ FetchTickers
    \/ NextTicker
    \/ Cleanup
    \/ JobRaises
    \/ ScheduleJob
    \/ PollDue
    \/ PollIdle
    \/ JobReturns
    \/ Sleep
    \/ Backoff
    \/ KeyboardInterrupt

Next ==
    \/ Control
    \/ UpdateStock(StoreChoices)
    \/ UpdateNews(StoreChoices)
    \/ ScreenStock

Spec == Init /\ [][Next]_vars

(***************************************************************************)
(* The two runs the properties are checked on, both without /screen        *)
(* requests during the run.  In the first the news table starts empty and  *)
(* the store refuses the news writes (every news update fails or finds no  *)
(* news), in the second the stocks table starts empty and the store        *)
(* refuses the stock writes.                                               *)
(***************************************************************************)
StoreDown == { "no_connection", "db_error" }

NextStocks ==
    \/ Control
    \/ UpdateStock(StoreChoices)
    \/ UpdateNews(StoreDown)

InitStocks == Init /\ news = {}

SpecStocks == InitStocks /\ [][NextStocks]_vars

NextNews ==
    \/ Control
    \/ UpdateStock(StoreDown)
    \/ UpdateNews(StoreChoices)

InitNews == Init /\ stocks = {}

SpecNews == InitNews /\ [][NextNews]_vars

TypeOK ==
    /\ pc \in { "start", "initial_job", "poll", "scheduled_job", "sleep",
                "backoff", "stopped", "crashed" }
    /\ jpc \in { "idle", "universe", "stock", "news", "delay", "cleanup", "end" }
    /\ cycles \in 0..MaxCycles
    /\ newsSeq \in Nat

(***************************************************************************)
(* Scoring on its own: the two score formulas and the recommendation are   *)
(* applied to fundamentals drawn around every threshold of the formulas,   *)
(* by the two writers of the stocks table.                                 *)
(***************************************************************************)
Absent == << 0, 0 >>

\* The dictionary holding the keys of f whose value is not Absent.
Present(f) == [ k \in { j \in DOMAIN f : f[j] # Absent } |-> f[k] ]

Values(S) == { Some(v) : v \in S }

PeInputs == { None, Absent } \cup Values({ -100, 0, 1, 1499, 1500, 1800, 1999, 2000, 2499, 2500, 3000 })
PegInputs == { None } \cup Values({ -1, 0, 1, 120, 149, 150, 199, 200 })
PtbInputs == { None } \cup Values({ -1, 0, 149, 150, 249, 250 })
RoeInputs == { None } \cup Values({ -1, 10, 11, 15, 16 })
RgInputs == { None, Absent } \cup Values({ -1, 2, 5, 6, 10, 11, 12, 15, 16 })

ScoreInputs ==
    { Present([ trailingPE |-> a, pegRatio |-> b, priceToBook |-> c,
                returnOnEquity |-> d, revenueGrowth |-> e ]) :
      a \in PeInputs, b \in PegInputs, c \in PtbInputs, d \in RoeInputs, e \in RgInputs }

ScoreTriples ==
    { [ garp_score |-> a, growth_score |-> b, value_score |-> c ] :
      a \in 0..5, b \in 0..5, c \in 0..5 }

InitScore ==
    /\ now = StartTime
    /\ stocks = {}
    /\ news = {}
    /\ newsSeq = 0
    /\ pc = "scoring"
    /\ jpc = "idle"
    /\ tickers = << >>
    /\ idx = 0
    /\ next_run = 0
    /\ cycles = 0
    /\ screens = 0
    /\ log = << >>
    /\ last = NoOp
    /\ at = NoTimes
    /\ writers = NoWriters
    /\ \/ s_info \in ScoreInputs /\ s_out = NoScores
       \/ /\ s_info = NoInfo
          /\ \E t \in ScoreTriples : s_out = [ NoScores EXCEPT !.scores = << t >> ]

ScoreResponse == [ raises |-> FALSE, info |-> s_info, hist |-> Some(10000) ]

\* screen_stock, lines 128 and 138-165.
ScoreFull ==
    /\ pc = "scoring"
    /\ s_info # NoInfo
    /\ s_out.scores = << >>
    /\ s_out' = [ s_out EXCEPT !.scores = << calculate_screening_scores(s_info) >> ]
    /\ stocks' = screen_stock(stocks, DEFAULT_TICKERS[1], ScoreResponse, "ok", now)
    /\ UNCHANGED << now, news, newsSeq, jobvars, mainvars, screens, histvars, s_info, writers >>

\* update_stock_data, lines 89-131.
ScoreWorker ==
    /\ pc = "scoring"
    /\ s_info # NoInfo
    /\ s_out.worker = << >>
    /\ s_out' = [ s_out EXCEPT !.worker =
                    << IF WorkerScoresRaise(s_info)
                       THEN [ raised |-> TRUE ]
                       ELSE [ raised |-> FALSE, scores |-> WorkerScores(s_info) ] >> ]
    /\ stocks' = update_stock_data(stocks, DEFAULT_TICKERS[1], ScoreResponse, "ok", now)
    /\ UNCHANGED << now, news, newsSeq, jobvars, mainvars, screens, histvars, s_info, writers >>

\* screen_stock, line 178.
Recommend ==
    /\ pc = "scoring"
    /\ s_out.scores # << >>
    /\ s_out.rec = << >>
    /\ s_out' = [ s_out EXCEPT !.rec = << get_recommendation(s_out.scores[1]) >> ]
    /\ UNCHANGED << now, dbvars, jobvars, mainvars, screens, histvars, s_info, writers >>

NextScore ==
    \/ ScoreFull
    \/ ScoreWorker
    \/ Recommend

SpecScore == InitScore /\ [][NextScore]_vars

(***************************************************************************)
(* Properties.                                                             *)
(***************************************************************************)
Attempted(op, ticker) == << op, ticker >> \in Range(log)

HasStockRow(ticker) == \E r \in stocks : r.ticker = ticker

\* A step of worker_job that performs the operation op.
OpStep(op) == Len(log') = Len(log) + 1 /\ last'.op = op

\* C1: fault isolation.  Whatever the outcome of a ticker's stock update and
\* news update, both updates are attempted for every ticker of the working
\* set: the tickers before the current one, and all of them once the loop is
\* over, have both operations in the cycle's history, and the current ticker
\* has those its position is past.  A stock update whose fetch and store
\* access succeed has written the ticker's row.
C1_FaultIsolation ==
    JobRunning /\ jpc \in { "stock", "news", "delay", "cleanup", "end" } =>
        /\ \A i \in 1..Len(tickers) :
             (i < idx \/ jpc \in { "cleanup", "end" }) =>
                 Attempted("stock", tickers[i]) /\ Attempted("news", tickers[i])
        /\ jpc \in { "cleanup", "end" } => idx = Len(tickers) + 1
        /\ jpc \in { "news", "delay" } => Attempted("stock", tickers[idx])
        /\ jpc = "delay" => Attempted("news", tickers[idx])
        /\ (last.op = "stock" /\ last.outcome = "ok") =>
               \E r \in stocks : r.ticker = last.ticker /\ r.updated_at = now

\* The second ticker of a cycle has been updated although the stock update
\* of the first one failed (it was attempted and the ticker has no row).
C1_Witness ==
    /\ JobRunning /\ jpc = "news" /\ idx = 2
    /\ last.op = "stock" /\ last.outcome = "ok" /\ last.ticker = tickers[2]
    /\ Attempted("stock", tickers[1]) /\ Attempted("news", tickers[1])
    /\ ~ HasStockRow(tickers[1])
    /\ HasStockRow(tickers[2])

NoDuplicateNews(tbl) ==
    \A a, b \in tbl : (a.ticker = b.ticker /\ a.headline = b.headline) => a = b

\* C2: news dedup with one worker.  A news update keeps every stored row as
\* it is, adds exactly one row (stamped with the collection time) for each
\* collected headline the ticker did not have, none for a headline it had,
\* and leaves the table without two rows of one (ticker, headline).
C2_NewsDedup ==
    [][ OpStep("news") =>
          /\ news \subseteq news'
          /\ NoDuplicateNews(news) => NoDuplicateNews(news')
          /\ \A r \in news' \ news :
               /\ r.ticker = last'.ticker
               /\ r.headline \in Range(last'.arg)
               /\ r.published_at = now
               /\ SelectNews(news, r.ticker, r.headline) = {}
          /\ last'.outcome = "ok" =>
               \A h \in Range(last'.arg) :
                   Cardinality(SelectNews(news', last'.ticker, h)) = 1
          /\ last'.outcome # "ok" => news' = news ]_vars

\* In the second cycle a batch holding the same headline twice has been
\* stored for a ticker that already had this headline from the first cycle.
C2_Witness ==
    /\ cycles = 2
    /\ last.op = "news" /\ last.outcome = "ok"
    /\ last.arg = << H_LONG, H_LONG >>
    /\ \E r \in news : /\ r.ticker = last.ticker /\ r.headline = H_LONG
                       /\ StartTime <= r.published_at /\ r.published_at < now
    /\ NoDuplicateNews(news)

\* C3: retention boundary.  A successful sweep at time now keeps exactly the
\* rows published at or after now - 30 days: a row published 31 days ago is
\* deleted, rows published 29 days or exactly 30 days ago are kept.
C3_RetentionBoundary ==
    [][ (OpStep("sweep") /\ last'.outcome = "ok") =>
          /\ news' \subseteq news
          /\ \A r \in news :
               /\ (r \in news') <=> (r.published_at >= now - 30 * SecondsPerDay)
               /\ r.published_at = now - 31 * SecondsPerDay => r \notin news'
               /\ r.published_at = now - 29 * SecondsPerDay => r \in news'
               /\ r.published_at = now - 30 * SecondsPerDay => r \in news' ]_vars

\* A sweep has succeeded and a row published exactly 30 days before it is
\* still stored.
C3_Witness ==
    /\ last.op = "sweep" /\ last.outcome = "ok"
    /\ jpc = "end"
    /\ \E r \in news : r.published_at = now - 30 * SecondsPerDay

UniqueTickers(tbl) == \A a, b \in tbl : a.ticker = b.ticker => a = b

\* The stock update that has just committed for a ticker fetched the same
\* data as the one that stored the ticker's previous row old: some provider
\* response yields old at old's time and the ticker's row new now.
SameFetchedData(ticker, old, new) ==
    \E resp \in ProviderResponses :
        /\ StockOutcome(resp, "ok") = "ok"
        /\ old = WorkerStockRow(ticker, resp, old.updated_at)
        /\ new = WorkerStockRow(ticker, resp, now)

C5_TickerUniverse ==
    [][ (JobRunning /\ jpc = "universe" /\ jpc' = "stock") =>
          /\ Cardinality(Range(DEFAULT_TICKERS)) = 24
          /\ Len(tickers') = Cardinality(Range(tickers'))
          /\ last'.outcome = "ok" =>
               Range(tickers') = DefaultTickers \cup { r.ticker : r \in stocks }
          /\ last'.outcome # "ok" =>
               tickers' = [ i \in 1..NumDefault |-> DEFAULT_TICKERS[i] ]
          /\ pc' = pc
          /\ idx' = 1 ]_vars

\* The store was unreachable for the ticker query while the stocks table
\* held a ticker outside the default list: the cycle runs on the default list.
C5_Witness ==
    /\ JobRunning /\ jpc = "stock" /\ idx = 1
    /\ last.op = "tickers" /\ last.outcome = "no_connection"
    /\ HasStockRow("ZZZ")
    /\ Range(tickers) = DefaultTickers

ScoresInRange(r) ==
    /\ r.garp_score \in 0..5
    /\ r.growth_score \in 0..5
    /\ r.value_score \in 0..5

\* C6: score range.  The scores of the full formula and of the worker's
\* formula are integers from 0 to 5, whatever the fundamentals, and so are the
\* scores of every stocks row written by screen_stock or update_stock_data.
C6_ScoreRange ==
    /\ s_out.scores # << >> => ScoresInRange(s_out.scores[1])
    /\ (s_out.worker # << >> /\ ~ s_out.worker[1].raised) =>
           ScoresInRange(s_out.worker[1].scores)
    /\ \A r \in stocks : ScoresInRange(r)

\* Both formulas have scored fundamentals with a negative P/E, a missing PEG
\* and missing revenue growth, and a row has been written.
C6_Witness ==
    /\ pc = "scoring"
    /\ s_out.scores # << >> /\ s_out.worker # << >>
    /\ "trailingPE" \in DOMAIN s_info /\ s_info["trailingPE"] = Some(-100)
    /\ "pegRatio" \in DOMAIN s_info /\ s_info["pegRatio"] = None
    /\ "revenueGrowth" \notin DOMAIN s_info
    /\ stocks # {}

\* The reference formula of the specification, section 4.3.
RefTier3(c3, c2, c1) == IF c3 THEN 3 ELSE IF c2 THEN 2 ELSE IF c1 THEN 1 ELSE 0
RefBonus(c2, c1) == IF c2 THEN 2 ELSE IF c1 THEN 1 ELSE 0
RefClamp(x) == IF x < 0 THEN 0 ELSE IF x > 5 THEN 5 ELSE x

RefGarp(pe, peg, rg) ==
    RefClamp(RefTier3(0 < pe /\ pe < 2000 /\ 0 < peg /\ peg < 150,
                      0 < pe /\ pe < 2500 /\ 0 < peg /\ peg < 200,
                      pe > 0 /\ peg > 0)
             + RefBonus(rg > 10, rg > 5))

RefGrowth(rg, roe) ==
    RefClamp(RefTier3(rg > 15, rg > 10, rg > 5) + RefBonus(roe > 15, roe > 10))

RefValue(pe, ptb) ==
    RefClamp(RefTier3(0 < pe /\ pe < 1500, 0 < pe /\ pe < 2000, 0 < pe /\ pe < 2500)
             + RefBonus(0 < ptb /\ ptb < 150, 0 < ptb /\ ptb < 250))

\* The number a fundamentals field stands for: 0 when absent or None.
Field(info, key) ==
    IF key \notin DOMAIN info THEN 0 ELSE IF info[key] = None THEN 0 ELSE info[key][1]

\* C7: full scoring formula.  calculate_screening_scores returns the scores
\* of the reference formula for every input; pe=18, peg=1.2,
\* revenue_growth=0.12 gives GARP 5 and pe=30, peg=0, revenue_growth=0.02
\* gives GARP 0.
C7_FullFormula ==
    (s_out.scores # << >> /\ s_info # NoInfo) =>
        LET pe  == Field(s_info, "trailingPE")
            peg == Field(s_info, "pegRatio")
            ptb == Field(s_info, "priceToBook")
            roe == Field(s_info, "returnOnEquity")
            rg  == Field(s_info, "revenueGrowth")
            out == s_out.scores[1]
        IN  /\ out.garp_score = RefGarp(pe, peg, rg)
            /\ out.growth_score = RefGrowth(rg, roe)
            /\ out.value_score = RefValue(pe, ptb)
            /\ (pe = 1800 /\ peg = 120 /\ rg = 12) => out.garp_score = 5
            /\ (pe = 3000 /\ peg = 0 /\ rg = 2) => out.garp_score = 0

\* The first example of the specification has been scored.
C7_Witness ==
    /\ s_out.scores # << >> /\ s_info # NoInfo
    /\ Field(s_info, "trailingPE") = 1800
    /\ Field(s_info, "pegRatio") = 120
    /\ Field(s_info, "revenueGrowth") = 12
    /\ s_out.scores[1].garp_score = 5

\* C8: recommendation mapping.  A total of 12 or more is Strong Buy/High,
\* 9 to 11 Buy/Medium, 6 to 8 Hold/Low, less than 6 Sell/Low.
C8_Recommendation ==
    s_out.rec # << >> =>
        LET sc    == s_out.scores[1]
            total == sc.garp_score + sc.growth_score + sc.value_score
            rec   == s_out.rec[1]
        IN  /\ total >= 12 => rec.rating = "Strong Buy" /\ rec.confidence = "High"
            /\ total \in 9..11 => rec.rating = "Buy" /\ rec.confidence = "Medium"
            /\ total \in 6..8 => rec.rating = "Hold" /\ rec.confidence = "Low"
            /\ total < 6 => rec.rating = "Sell" /\ rec.confidence = "Low"

\* A total of exactly 12 has been rated Strong Buy.
C8_Witness ==
    /\ s_out.rec # << >>
    /\ s_out.scores[1].garp_score + s_out.scores[1].growth_score
         + s_out.scores[1].value_score = 12
    /\ s_out.rec[1].rating = "Strong Buy"

\* The operations of a complete cycle over the list tks, in order.
ExpectedLog(tks) ==
    [ i \in 1..(2 * Len(tks) + 1) |->
        IF i = 2 * Len(tks) + 1 THEN << "sweep", "" >>
        ELSE IF i % 2 = 1 THEN << "stock", tks[(i + 1) \div 2] >>
        ELSE << "news", tks[i \div 2] >> ]

IsPrefix(a, b) == Len(a) <= Len(b) /\ \A i \in 1..Len(a) : a[i] = b[i]

\* C9: cycle ordering.  The operations of a cycle happen in the order stock
\* update, news update of the first ticker, then of the second, and so on,
\* and the sweep comes last and once: the history of a running cycle is a
\* prefix of that order, as long as its position says, and the whole of it
\* when worker_job returns.
C9_CycleOrdering ==
    (JobRunning /\ jpc # "universe") =>
        /\ IsPrefix(log, ExpectedLog(tickers))
        /\ jpc = "stock" => Len(log) = 2 * (idx - 1)
        /\ jpc = "news" => Len(log) = 2 * idx - 1
        /\ jpc = "delay" => Len(log) = 2 * idx
        /\ jpc = "cleanup" => Len(log) = 2 * Len(tickers)
        /\ jpc = "end" => log = ExpectedLog(tickers)

\* A cycle over two tickers has finished with its sweep although an update
\* of its first ticker failed.
C9_Witness ==
    /\ JobRunning /\ jpc = "end"
    /\ Len(tickers) = 2
    /\ log = ExpectedLog(tickers)
    /\ ~ HasStockRow(tickers[1])

\* C10: outer-loop resilience.  No processing error terminates the worker:
\* main() is never left through an exception raised by a job.
C10_NeverTerminatesOnError == pc # "crashed"

\* C11: retention cutoff origin.  A successful sweep deletes exactly the rows
\* published before the time at which its cycle (worker_job) started minus
\* 30 days, however long the per-ticker processing of the cycle took.
C11_CutoffFromCycleStart ==
    [][ (OpStep("sweep") /\ last'.outcome = "ok") =>
          news' = { r \in news :
                      r.published_at >= at.started - RETENTION_DAYS * SecondsPerDay } ]_vars

\* C12: missing-field defaulting in the worker.  For every provider response
\* with price history, whichever of trailing P/E, market cap and revenue
\* growth are absent or None, update_stock_data does not fail: it writes the
\* ticker's row, with each missing field counted as 0 in the stored values
\* and in the scores.
C12_MissingFieldsDefault ==
    (s_out.worker # << >> /\ s_out.scores = << >>) =>
        /\ ~ s_out.worker[1].raised
        /\ \E r \in stocks :
             /\ r.ticker = DEFAULT_TICKERS[1]
             /\ r.pe_ratio = Field(s_info, "trailingPE")
             /\ r.market_cap = Some(Field(s_info, "marketCap"))
             /\ r.growth_score = IF Field(s_info, "revenueGrowth") > 10 THEN 3 ELSE 1

(***************************************************************************)
(* fetch_news_sentiment on its own: the function is applied to every       *)
(* response of the news page whose h3 elements are drawn from headlines of *)
(* 4, 9, 10, 11 and 23 characters, on pages longer than max_articles too.  *)
(***************************************************************************)
MaxPageLen == 6

H_NINE == "Nine char"
H_ELEVEN == "Eleven char"
FetchHeadlines == { H_TINY, H_NINE, H_TEN, H_ELEVEN, H_LONG }

FetchInputs ==
    { [ raises |-> TRUE, status |-> 0, page |-> << >> ],
      [ raises |-> FALSE, status |-> 503, page |-> << >> ] }
    \cup { [ raises |-> FALSE, status |-> 200, page |-> p ] :
           p \in UNION { [1..n -> FetchHeadlines] : n \in 0..MaxPageLen } }

InitFetch ==
    /\ now = StartTime
    /\ stocks = {}
    /\ news = {}
    /\ newsSeq = 0
    /\ pc = "fetching"
    /\ jpc = "idle"
    /\ tickers = << >>
    /\ idx = 0
    /\ next_run = 0
    /\ cycles = 0
    /\ screens = 0
    /\ log = << >>
    /\ last = NoOp
    /\ at = NoTimes
    /\ s_info \in FetchInputs
    /\ s_out = NoScores
    /\ writers = NoWriters

\* Line 143: news_items = fetch_news_sentiment(ticker); last.arg is the list
\* the call returns.
Fetch ==
    /\ pc = "fetching"
    /\ last = NoOp
    /\ last' = [ op |-> "fetch", ticker |-> DEFAULT_TICKERS[1], outcome |-> "",
                 arg |-> fetch_news_sentiment(s_info, now), conn |-> "none" ]
    /\ UNCHANGED << now, dbvars, jobvars, mainvars, screens, log, at, scorevars, writers >>

NextFetch == Fetch

SpecFetch == InitFetch /\ [][NextFetch]_vars

AtLeastTen(headline) == Len(headline) >= 10

\* C13: headline length filter.  Of the candidates of a page (its first
\* max_articles h3 elements) fetch_news_sentiment returns, in page order and
\* each with its polarity, exactly those of 10 or more characters: a headline
\* is discarded if and only if it is shorter than 10 characters.
C13_HeadlineLengthFilter ==
    (last.op = "fetch" /\ ~ s_info.raises /\ s_info.status = 200) =>
        LET candidates == SubSeq(s_info.page, 1, Min(MAX_ARTICLES, Len(s_info.page)))
            expected   == SelectSeq(candidates, AtLeastTen)
        IN  /\ Len(last.arg) = Len(expected)
            /\ \A i \in 1..Len(expected) :
                 /\ last.arg[i].headline = expected[i]
                 /\ last.arg[i].sentiment_score = Polarity(expected[i])

(***************************************************************************)
(* Two writers at once: two executions of update_news_sentiment for the    *)
(* same ticker (two worker processes on one store), each on its own        *)
(* connection, interleaved statement by statement.  The store accepts      *)
(* every statement.  writers[w] is                                         *)
(*   [pc, items, i, pending, checks]:                                      *)
(* the position of w, its news_items, the index of the current item, the   *)
(* rows its transaction has inserted, and (history) for every SELECT of w  *)
(* that found no row the headline and the writers that had returned by     *)
(* then.                                                                   *)
(***************************************************************************)
Writers == { 1, 2 }
RaceTicker == DEFAULT_TICKERS[1]

InitRace ==
    /\ now = StartTime
    /\ stocks = {}
    /\ news \in InitNewsTables
    /\ newsSeq = Cardinality(news)
    /\ pc = "racing"
    /\ jpc = "idle"
    /\ tickers = << >>
    /\ idx = 0
    /\ next_run = 0
    /\ cycles = 0
    /\ screens = 0
    /\ log = << >>
    /\ last = NoOp
    /\ at = NoTimes
    /\ s_info = NoInfo
    /\ s_out = NoScores
    /\ writers = [ w \in Writers |->
                     [ pc |-> "fetch", items |-> << >>, i |-> 0,
                       pending |-> {}, checks |-> {} ] ]

racevars == << now, stocks, pc, jpc, tickers, idx, next_run, cycles, screens,
               log, last, at, s_info, s_out >>

VisibleOwnOnly(w) == writers[w].pending
\* The rows a statement of w sees: the committed rows and the rows of its
\* own transaction.
Visible(w) == news \cup writers[w].pending

\* Lines 155 and 175: the next item of the loop, or the commit after the last.
AfterItem(w) ==
    IF writers[w].i + 1 <= Len(writers[w].items) THEN "select" ELSE "commit"

\* Lines 143-153: the items are collected; without items the call returns.
RaceFetch(w) ==
    /\ pc = "racing" /\ writers[w].pc = "fetch"
    /\ \E resp \in NewsResponses :
         LET items == fetch_news_sentiment(resp, now)
         IN  writers' = [ writers EXCEPT ![w].items = items,
                                         ![w].i = 1,
                                         ![w].pc = IF items = << >> THEN "done"
                                                   ELSE "select" ]
    /\ UNCHANGED << racevars, news, newsSeq >>

\* Lines 157-162: the existence check of item i.
RaceSelect(w) ==
    /\ pc = "racing" /\ writers[w].pc = "select"
    /\ LET h == writers[w].items[writers[w].i].headline
       IN  IF SelectNews(Visible(w), RaceTicker, h) # {}
           THEN writers' = [ writers EXCEPT ![w].i = @ + 1, ![w].pc = AfterItem(w) ]
           ELSE writers' = [ writers EXCEPT
                               ![w].pc = "insert",
                               ![w].checks = @ \cup
                                   { << h, { v \in Writers : writers[v].pc = "done" } >> } ]
    /\ UNCHANGED << racevars, news, newsSeq >>

\* Lines 165-173: the insert of item i, not yet committed.
RaceInsert(w) ==
    /\ pc = "racing" /\ writers[w].pc = "insert"
    /\ LET item == writers[w].items[writers[w].i]
       IN  writers' = [ writers EXCEPT
                          ![w].pending = @ \cup
                              { [ id              |-> newsSeq + 1,
                                  ticker          |-> RaceTicker,
                                  headline        |-> item.headline,
                                  sentiment_score |-> item.sentiment_score,
                                  published_at    |-> item.published_at ] },
                          ![w].i = @ + 1,
                          ![w].pc = AfterItem(w) ]
    /\ newsSeq' = newsSeq + 1
    /\ UNCHANGED << racevars, news >>

\* Lines 175-179: the commit; the call returns.
RaceCommit(w) ==
    /\ pc = "racing" /\ writers[w].pc = "commit"
    /\ news' = news \cup writers[w].pending
    /\ writers' = [ writers EXCEPT ![w].pending = {}, ![w].pc = "done" ]
    /\ UNCHANGED << racevars, newsSeq >>

NextRace ==
    \E w \in Writers :
        \/ RaceFetch(w)
        \/ RaceSelect(w)
        \/ RaceInsert(w)
        \/ RaceCommit(w)

SpecRace == InitRace /\ [][NextRace]_vars

\* Writer w found no row for headline h at a time when no writer had
\* committed, and has committed since.
CheckedBeforeAnyCommit(w, h) ==
    writers[w].pc = "done" /\ << h, {} >> \in writers[w].checks

\* C14: the dedup race.  With two writers on the same ticker the news table
\* gets two rows of one (ticker, headline) exactly when both writers ran
\* their existence check for the headline before either of them committed,
\* and both have committed; it never gets more than two.
C14_DedupRace ==
    \A h \in { H_LONG, H_OTHER, H_TEN, H_TINY } :
        LET rows == SelectNews(news, RaceTicker, h)
        IN  /\ Cardinality(rows) <= 2
            /\ Cardinality(rows) = 2 <=>
                   \A w \in Writers : CheckedBeforeAnyCommit(w, h)

\* Both writers have returned, each after a check that ran before either
\* commit, and the table has two rows of the same ticker and headline.
C14_Witness ==
    /\ pc = "racing"
    /\ \A w \in Writers : CheckedBeforeAnyCommit(w, H_LONG)
    /\ \E a, b \in news :
         /\ a # b
         /\ a.ticker = RaceTicker /\ b.ticker = RaceTicker
         /\ a.headline = H_LONG /\ b.headline = H_LONG

\* The fundamentals info with every field but trailing P/E and revenue
\* growth removed.
PrimaryFields(info) ==
    [ k \in DOMAIN info \cap { "trailingPE", "revenueGrowth" } |-> info[k] ]

\* C15: simplified worker scoring.  Each score update_stock_data computes and
\* stores is 3 when its primary threshold holds and 1 otherwise (GARP:
\* 0 < pe < 20, growth: revenue growth > 0.10, value: 0 < pe < 15), so it is
\* 1 or 3 and does not depend on PEG, return on equity or price-to-book.
C15_SimplifiedScores ==
    (s_out.worker # << >> /\ ~ s_out.worker[1].raised) =>
        LET pe == Field(s_info, "trailingPE")
            rg == Field(s_info, "revenueGrowth")
            sc == s_out.worker[1].scores
        IN  /\ sc.garp_score = IF 0 < pe /\ pe < 2000 THEN 3 ELSE 1
            /\ sc.growth_score = IF rg > 10 THEN 3 ELSE 1
            /\ sc.value_score = IF 0 < pe /\ pe < 1500 THEN 3 ELSE 1
            /\ { sc.garp_score, sc.growth_score, sc.value_score } \subseteq { 1, 3 }
            /\ sc = WorkerScores(PrimaryFields(s_info))
            /\ s_out.scores = << >> =>
                   \A r \in stocks :
                       /\ r.garp_score = sc.garp_score
                       /\ r.growth_score = sc.growth_score
                       /\ r.value_score = sc.value_score

\* The worker has scored and stored pe = 18, peg = 1.2, revenue growth 0.12,
\* which the full formula scores GARP 5: GARP 3, growth 3, value 1.
C15_Witness ==
    /\ pc = "scoring"
    /\ s_out.worker # << >> /\ s_out.scores = << >>
    /\ "trailingPE" \in DOMAIN s_info /\ s_info["trailingPE"] = Some(1800)
    /\ "pegRatio" \in DOMAIN s_info /\ s_info["pegRatio"] = Some(120)
    /\ "revenueGrowth" \in DOMAIN s_info /\ s_info["revenueGrowth"] = Some(12)
    /\ calculate_screening_scores(s_info).garp_score = 5
    /\ \E r \in stocks :
         r.garp_score = 3 /\ r.growth_score = 3 /\ r.value_score = 1

\* C16: a failed stock update leaves the store untouched.  When
\* update_stock_data ends in failure (provider exception, no price history,
\* an error while scoring, no connection, an error before the commit), the
\* stocks table after the call is the table before it, and worker_job goes
\* on with the ticker's news update: the failure is not raised to it.
C16_FailedUpdateNoEffect ==
    [][ (OpStep("stock") /\ last'.outcome # "ok") =>
          /\ last'.outcome \in { "provider_error", "no_history", "type_error",
                                 "no_connection", "db_error" }
          /\ stocks' = stocks
          /\ JobRunning' /\ jpc' = "news"
          /\ pc' = pc /\ tickers' = tickers /\ idx' = idx ]_vars

\* The stock update of a ticker that had a row has failed on an error
\* before the commit: the row is as it was and the news update is next.
C16_Witness ==
    /\ JobRunning /\ jpc = "news"
    /\ last.op = "stock" /\ last.outcome = "db_error"
    /\ last.arg # {}
    /\ { r \in stocks : r.ticker = last.ticker } = last.arg

\* C17: connection scope.  When an operation of the worker returns (the
\* ticker query, a stock update, a news update, the sweep), on success or on
\* any error path, it has closed the connection it opened.
C17_ConnectionScope == last.conn # "not_closed"

\* A step that starts a cycle, and a step in which main() polls the schedule.
CycleStart == cycles' = cycles + 1
PollStep == pc = "poll" /\ pc' \in { "scheduled_job", "sleep" }

\* The first cycle starts at process start; a later cycle starts only at a
\* poll at which WORKER_INTERVAL has elapsed since schedule planned the job,
\* and only when no cycle is running.
CycleStartsWhenDue ==
    /\ (CycleStart /\ cycles = 0) => (pc = "start" /\ now = StartTime /\ jpc = "idle")
    /\ (CycleStart /\ cycles > 0) =>
           /\ PollStep
           /\ at.planned # 0 /\ now - at.planned >= WORKER_INTERVAL
           /\ jpc = "idle"
    /\ JobRunning' => (JobRunning \/ CycleStart)

\* The time at which the work of the last poll ended: the end of the cycle
\* it ran, if it ran one that returned, else the time of the poll.
LastPollEnd ==
    IF at.started = at.polled /\ at.planned >= at.started THEN at.planned
    ELSE at.polled

MaxBatch == 2

BatchPages == UNION { [1..n -> { H_LONG, H_OTHER }] : n \in 0..MaxBatch }

InitBatch ==
    /\ now = StartTime
    /\ stocks = {}
    /\ news \in InitNewsTables
    /\ newsSeq = Cardinality(news)
    /\ pc = "batching"
    /\ jpc = "idle"
    /\ tickers = << >>
    /\ idx = 0
    /\ next_run = 0
    /\ cycles = 0
    /\ screens = 0
    /\ log = << >>
    /\ last = NoOp
    /\ at = NoTimes
    /\ s_info \in { [ raises |-> FALSE, status |-> 200, page |-> p ] : p \in BatchPages }
    /\ s_out = NoScores
    /\ writers = NoWriters

\* Lines 140-183: update_news_sentiment(ticker) on the page s_info.
Batch ==
    /\ pc = "batching"
    /\ last = NoOp
    /\ \E store \in StoreChoices :
         LET items == fetch_news_sentiment(s_info, now)
         IN  \E failAt \in IF store = "db_error" THEN 1..(Len(items) + 1) ELSE { 0 } :
               LET r == update_news_sentiment(news, newsSeq, DEFAULT_TICKERS[1], items,
                                              store, failAt)
               IN  /\ news' = r.tbl
                   /\ newsSeq' = r.seq
                   /\ \E c \in ConnAfterOperation(NewsOutcome(items, store, failAt)) :
                        last' = [ op |-> "news", ticker |-> DEFAULT_TICKERS[1],
                                  outcome |-> NewsOutcome(items, store, failAt),
                                  arg |-> [ i \in 1..Len(items) |-> items[i].headline ],
                                  conn |-> c ]
                   /\ log' = Append(log, << "news", DEFAULT_TICKERS[1] >>)
    /\ UNCHANGED << now, stocks, jobvars, mainvars, screens, at, scorevars, writers >>

NextBatch == Batch

SpecBatch == InitBatch /\ [][NextBatch]_vars

\* The headlines of the batch of a news update that the ticker did not have
\* before the call.
FreshHeadlines == { h \in Range(last'.arg) : SelectNews(news, last'.ticker, h) = {} }

\* C19: news batch atomicity.  After a call of update_news_sentiment the
\* table holds all of the batch's headlines that were not stored before, or
\* none of them: all when the call succeeds, none, with the table as it was,
\* when an error occurs at any item of the batch or at the commit.
C19_BatchAtomicity ==
    [][ OpStep("news") =>
          /\ \/ \A h \in FreshHeadlines : SelectNews(news', last'.ticker, h) # {}
             \/ \A h \in FreshHeadlines : SelectNews(news', last'.ticker, h) = {}
          /\ last'.outcome = "ok" =>
                 \A h \in FreshHeadlines : SelectNews(news', last'.ticker, h) # {}
          /\ last'.outcome # "ok" => news' = news ]_vars

\* A batch of two headlines the ticker did not have has failed on an error
\* of the store, and neither headline is stored.
C19_Witness ==
    /\ pc = "batching"
    /\ last.op = "news" /\ last.outcome = "db_error"
    /\ last.arg = << H_LONG, H_OTHER >>
    /\ SelectNews(news, last.ticker, H_LONG) = {}
    /\ SelectNews(news, last.ticker, H_OTHER) = {}
    /\ news # {}

====
